---- MODULE Spec2Model ----
(***************************************************************************)
(* FollowPath: an animation controller that moves one element along an    *)
(* SVG path.  The model follows the TypeScript class (src/unnamed/part_001)*)
(* statement by statement.                                                 *)
(*                                                                         *)
(* Numbers.  Progress (this.iterations, iterNumber) and lengths            *)
(* (currentLength, totalLength) are JavaScript numbers.  The model keeps   *)
(* them exact, as integer multiples of one fixed unit:                     *)
(*   - one iteration      = Scale = 100 * duration units;                  *)
(*   - the path's length  = Scale units as well (lengths are measured in   *)
(*     units of totalLength / Scale), so currentLength >= totalLength is   *)
(*     cur >= Scale;                                                       *)
(*   - one millisecond of frame time advances both by 100 units, which is  *)
(*     pixelsPerMs = (totalLength / duration) * timePerFrame.              *)
(* Infinity, NaN and undefined are three values outside the naturals.      *)
(* Floating-point rounding is not modelled.                                *)
(***************************************************************************)
EXTENDS Integers, Sequences, FiniteSets, TLC

\* ------------------------------------------------------------------ bounds
\* most loops started through the API (animate, play) on one controller
MaxLoops == 2
\* with an infinite target, ticks are explored up to this many iterations
MaxInfIter == 1

\* ------------------------------------------------------- JavaScript numbers
NaN == -1
Infinity == -2
Undefined == -3

IsFinite(x) == x >= 0

\* a >= b
Geq(a, b) ==
  IF a = NaN \/ b = NaN \/ a = Undefined \/ b = Undefined THEN FALSE
  ELSE IF a = Infinity THEN TRUE
  ELSE IF b = Infinity THEN FALSE
  ELSE a >= b

\* a > b
Gt(a, b) ==
  IF a = NaN \/ b = NaN \/ a = Undefined \/ b = Undefined THEN FALSE
  ELSE IF b = Infinity THEN FALSE
  ELSE IF a = Infinity THEN TRUE
  ELSE a > b

\* a <= b
Leq(a, b) == Geq(b, a)

\* a + b, for b finite
Add(a, b) == IF IsFinite(a) THEN a + b ELSE a

\* !x
Falsy(x) == x = 0 \/ x = NaN \/ x = Undefined

\* 1000 / timePerFrame (whole part)
Fps(dt) == IF dt = 0 THEN Infinity ELSE 1000 \div dt

\* ------------------------------------------------------------ timeline keys
\* A key "P%" is the sequence of the decimal digits of P; validation accepts
\* one to three digits.
RECURSIVE NumberOf(_)
\* Number(e.slice(0, e.length - 1))
NumberOf(key) ==
  IF key = <<>> THEN 0
  ELSE 10 * NumberOf(SubSeq(key, 1, Len(key) - 1)) + key[Len(key)]

\* the digits of `${n}%`
KeyOf(n) ==
  IF n < 10 THEN <<n>>
  ELSE IF n < 100 THEN <<n \div 10, n % 10>>
  ELSE <<n \div 100, (n \div 10) % 10, n % 10>>

RECURSIVE InsertDesc(_, _)
InsertDesc(x, s) ==
  IF s = <<>> THEN <<x>>
  ELSE IF x >= Head(s) THEN <<x>> \o s
  ELSE <<Head(s)>> \o InsertDesc(x, Tail(s))

RECURSIVE InsertAsc(_, _)
InsertAsc(x, s) ==
  IF s = <<>> THEN <<x>>
  ELSE IF x <= Head(s) THEN <<x>> \o s
  ELSE <<Head(s)>> \o InsertAsc(x, Tail(s))

RECURSIVE SortAsc(_)
SortAsc(s) == IF s = <<>> THEN <<>> ELSE InsertAsc(Head(s), SortAsc(Tail(s)))

RECURSIVE SortDesc(_)
\* .sort((a, b) => b - a)
SortDesc(s) == IF s = <<>> THEN <<>> ELSE InsertDesc(Head(s), SortDesc(Tail(s)))

\* Object.keys(timeline).map(e => Number(e.slice(0, e.length - 1)))
Thresholds(tl) == [i \in 1..Len(tl) |-> NumberOf(tl[i])]

\* the thresholds sorted the other way round
TimelineSortedAscending(tl) == SortAsc(Thresholds(tl))

\* the constructor's #timelineSorted
TimelineSorted(tl) == SortDesc(Thresholds(tl))

\* The timelines explored, keys in insertion order.
Timelines ==
  { <<>>,
    << <<7, 5>>, <<2, 5>> >>,
    << <<0>>, <<1, 0, 0>> >>,
    << <<5, 0>>, <<0, 5, 0>> >>,
    << <<0, 5>> >> }

\* ------------------------------------------------ values given to the constructor
\* A JavaScript value as the constructor's validation sees it: its kind t, with
\* the number n of a finite number (or 1 for true) and the text s of a string.
Value(t) == [t |-> t, n |-> 0, s |-> ""]
Num(k) == [t |-> "number", n |-> k, s |-> ""]
Str(x) == [t |-> "string", n |-> 0, s |-> x]
Bool(b) == [t |-> "boolean", n |-> IF b THEN 1 ELSE 0, s |-> ""]
Undef == Value("undefined")
Fn == Value("function")
Obj == Value("object")

\* typeof v
TypeOf(v) ==
  IF v.t \in {"number", "NaN", "Infinity"} THEN "number"
  ELSE IF v.t \in {"object", "null", "array"} THEN "object"
  ELSE v.t

\* Number.isNaN(v)
IsNaN(v) == v.t = "NaN"

\* Array.isArray(v)
IsArray(v) == v.t = "array"

\* v, as a condition
Truthy(v) ==
  IF v.t \in {"undefined", "null", "NaN"} THEN FALSE
  ELSE IF v.t \in {"number", "boolean"} THEN v.n # 0
  ELSE IF v.t = "string" THEN v.s # ""
  ELSE TRUE

\* Object.keys(this.#exceedEasingModes)
ExceedEasingModes == {"clamp", "loop", "pingpong"}

\* One property of a timeline object: the characters of its key before a final '%'
\* (0..9 a digit, 10 any other character), whether the key ends in '%', and its value.
Entry(chars, pct, v) == [chars |-> chars, pct |-> pct, v |-> v]

\* /^(\d{1,3})%$/.test(key)
KeyMatches(e) ==
  /\ e.pct
  /\ Len(e.chars) \in 1..3
  /\ \A i \in 1..Len(e.chars) : e.chars[i] \in 0..9

\* A configuration object: `self` is the kind of the argument itself, `timeline` the
\* kind of its timeline and `entries` the timeline's properties.
NoConfig ==
  [self |-> Undef, duration |-> Undef, path |-> Undef, element |-> Undef,
   iterations |-> Undef, easing |-> Undef, mode |-> Undef, delay |-> Undef,
   toScale |-> Undef, rotate |-> Undef, callback |-> Undef, timeline |-> Undef,
   entries |-> <<>>]

\* The fields of the object under construction, none assigned yet.
NoInstance ==
  [status |-> "none", duration |-> Undef, privateIterations |-> Undef,
   iterations |-> Undef, callback |-> Undef, delay |-> Undef, easing |-> "none",
   exceedEasing |-> "none", rotate |-> Undef, timelineSorted |-> <<>>]

\* #validateConfig(config)
ValidateConfig(cfg) ==
  IF ~Truthy(cfg.self) \/ TypeOf(cfg.self) # "object" \/ IsArray(cfg.self) THEN FALSE
  ELSE IF \/ TypeOf(cfg.duration) # "number" \/ IsNaN(cfg.duration)
          \/ ~Truthy(cfg.path)
          \/ ~Truthy(cfg.element)
          \/ TypeOf(cfg.iterations) # "number" \/ IsNaN(cfg.iterations)
          \/ TypeOf(cfg.easing) # "function"
          \/ /\ Truthy(cfg.mode)
             /\ TypeOf(cfg.mode) # "function"
             /\ ~(cfg.mode.t = "string" /\ cfg.mode.s \in ExceedEasingModes)
       THEN FALSE
  ELSE IF cfg.delay # Undef /\ (TypeOf(cfg.delay) # "number" \/ IsNaN(cfg.delay)) THEN FALSE
  ELSE IF cfg.toScale # Undef /\ TypeOf(cfg.toScale) # "boolean" THEN FALSE
  ELSE IF cfg.rotate # Undef /\ TypeOf(cfg.rotate) # "boolean" THEN FALSE
  ELSE IF cfg.callback # Undef /\ TypeOf(cfg.callback) # "function" THEN FALSE
  ELSE IF cfg.timeline # Undef
       THEN IF TypeOf(cfg.timeline) # "object" \/ IsArray(cfg.timeline) THEN FALSE
            ELSE \A i \in 1..Len(cfg.entries) :
                   KeyMatches(cfg.entries[i]) /\ TypeOf(cfg.entries[i].v) = "function"
  ELSE TRUE

\* new FollowPath(cfg): the fields the constructor assigns, or "invalid" when it
\* throws Error("Invalid Config.") before assigning any
New(cfg) ==
  IF ~ValidateConfig(cfg) THEN [NoInstance EXCEPT !.status = "invalid"]
  ELSE [status |-> "built",
        duration |-> cfg.duration,
        privateIterations |-> cfg.iterations,
        iterations |-> cfg.iterations,
        callback |-> cfg.callback,
        delay |-> cfg.delay,
        easing |-> IF Truthy(cfg.easing) THEN "given" ELSE "identity",
        exceedEasing |->
          IF TypeOf(cfg.mode) = "function" THEN "custom"
          ELSE IF Truthy(cfg.mode) /\ cfg.mode.t = "string" /\ cfg.mode.s \in ExceedEasingModes
               THEN cfg.mode.s
          ELSE "clamp",
        rotate |-> IF Truthy(cfg.rotate) THEN cfg.rotate ELSE Bool(FALSE),
        timelineSorted |->
          IF Truthy(cfg.timeline)
          THEN SortDesc([i \in 1..Len(cfg.entries) |-> NumberOf(cfg.entries[i].chars)])
          ELSE <<>>]

\* ------------------------------------------------------------------- state
VARIABLES
  duration,           \* #duration, in ms
  privateIterations,  \* #privateIterations: the target, in units
  callback,           \* whether config.callback is given
  delay,              \* this.delay, 0 when not given
  timeline,           \* #timeline: the keys, in insertion order
  path,               \* whether this.path is set (a public field: the page can clear it)
  easing,             \* this.easing: one of Easings
  exceedEasing,       \* #exceedEasing: the overflow policy, one of ExceedEasingModes
  totalLength,        \* this.path.getTotalLength(), in units of length
  stopAll,            \* #stopAll
  iterations,         \* this.iterations: the live progress, in units
  fps,                \* this.fps
  timelineSorted,     \* #timelineSorted: thresholds not yet popped, descending
  transform,          \* the length the element was last placed at (Undefined: never)
  frames,             \* requestAnimationFrame's queue
  timers,             \* setTimeout's queue: the iterNumber each closure holds
  callbackCount,      \* history: invocations of this.callback (2: two or more)
  fired,              \* history: keys whose timeline callback was invoked, in order
  run,                \* history: "fresh", "single" (one animate({}) and no other call), "many"
  loops,              \* history: animate, play and renderFrame calls made so far
  thrown,             \* history: animate has thrown its "Runtime Error"
  given,              \* ConstructSpec: the argument of the constructor call
  instance,           \* ConstructSpec: what that call produced
  stopped             \* history: stop() was called and no animate/play since

\* the fields no method of the class writes, and the record of the constructor call
config == <<duration, privateIterations, callback, delay, timeline, path, easing,
            exceedEasing, totalLength, given, instance>>
vars == <<duration, privateIterations, callback, delay, timeline, path, easing,
          exceedEasing, totalLength, stopAll, iterations,
          fps, timelineSorted, transform, frames, timers, callbackCount, fired, run,
          stopped, loops, thrown, given, instance>>

\* the variables of the running controller
controller == <<duration, privateIterations, callback, delay, timeline, path, easing,
                exceedEasing, totalLength, stopAll,
                iterations, fps, timelineSorted, transform, frames, timers, callbackCount,
                fired, run, stopped, loops, thrown>>

\* A frame callback.  kind "animator": the closure `animator` of one animate call,
\* with its currentLength (cur).  History, kept until the closure's second sample:
\* whether it has yet to sample (first), whether play() made the call (viaPlay), the
\* iterNumber it started from (start), the first length it sampled (firstSample) and
\* whether the call asked for a single frame (single).
\* kind "reanimate": () => this.animate({ iterNumber }), with the iterNumber it holds.
AnimatorTask(c, p, s) ==
  [kind |-> "animator", cur |-> c, iter |-> 0, first |-> TRUE, viaPlay |-> p,
   start |-> IF p THEN s ELSE 0, firstSample |-> Undefined, single |-> FALSE]

ReanimateTask(n) ==
  [kind |-> "reanimate", cur |-> 0, iter |-> n, first |-> FALSE, viaPlay |-> FALSE,
   start |-> 0, firstSample |-> Undefined, single |-> FALSE]

\* the closure after a sample at length `sample`, its currentLength now c
Sampled(task, c, sample) ==
  IF task.first
  THEN [task EXCEPT !.cur = c, !.first = FALSE,
                    !.firstSample = IF task.viaPlay THEN sample ELSE Undefined]
  ELSE [task EXCEPT !.cur = c, !.viaPlay = FALSE, !.start = 0, !.firstSample = Undefined,
                    !.single = FALSE]

Pending == Len(frames) + Len(timers)

\* units of progress in one iteration, and of length in totalLength
Scale == 100 * duration

\* every iteration starting at the start of the path
StartAtZero(x) == 0

\* iterNumber - Math.floor(iterNumber): Infinity - Infinity is NaN
StartPos(x) == IF IsFinite(x) THEN x % Scale ELSE NaN

\* callbackCount after one more invocation
Invoked(n) == IF n < 2 THEN n + 1 ELSE 2

\* the configurations explored are combinations of these, of a callback given or not
\* and of the timelines; each specification names the combinations it starts from
Durations == {2}
Iterations == {2}
Delays == {0, 1}

\* Spec, TimelineSpec and ApiSpec start from a controller already built and keep no
\* record of the constructor call.
Unrecorded == <<>>

\* n iterations, in units
Units(n) == IF n = Infinity THEN Infinity ELSE n * Scale

\* the state the constructor leaves, for a target among `targets` (in iterations)
Constructed(targets) ==
  /\ duration \in Durations
  /\ privateIterations \in {Units(n) : n \in targets}
  /\ callback \in BOOLEAN
  /\ delay \in Delays
  /\ timeline \in Timelines
  /\ path = TRUE
  /\ easing = "identity"
  /\ exceedEasing = "clamp"
  /\ totalLength = Scale
  /\ stopAll = FALSE
  /\ iterations = privateIterations
  /\ fps = Undefined
  /\ timelineSorted = TimelineSorted(timeline)
  /\ transform = Undefined
  /\ frames = <<>>
  /\ timers = <<>>
  /\ callbackCount = 0
  /\ fired = <<>>
  /\ run = "fresh"
  /\ stopped = FALSE
  /\ loops = 0
  /\ thrown = FALSE
  /\ given = Unrecorded
  /\ instance = Unrecorded

\* Spec: no timeline; a target of 2 iterations or an infinite one, with a callback,
\* with and without a delay, and the target 2 without callback or delay.
Init ==
  /\ Constructed(Iterations \cup {Infinity})
  /\ timeline = <<>>
  /\ ~callback => (delay = 0 /\ privateIterations # Infinity)

\* ------------------------------------------------------------------ animate
\* (this.#privateIterations <= 0 || iterNumber > this.#privateIterations) && this.callback
EarlyExit(iterNumber) ==
  /\ Leq(privateIterations, 0) \/ Gt(iterNumber, privateIterations)
  /\ callback

\* the runtime guard without the test of the path
GuardIgnoresPath == Falsy(duration)

\* !this.path || !this.#element || !this.#duration: #element is private and always
\* set by the constructor
RuntimeGuard == ~path \/ Falsy(duration)

\* if (!iterNumber) iterNumber = 0
StartOf(arg) == IF Falsy(arg) THEN 0 ELSE arg

\* animate({ iterNumber: arg, singleFrame }) called with the frame queue q: sets fps,
\* iterations, frames, callbackCount and thrown.  singleFrame is read nowhere in
\* animate; the model keeps it in the closure's history only.
AnimateEffect(arg, singleFrame, viaPlay, q) ==
  LET iterNumber == StartOf(arg)
  IN  IF RuntimeGuard
      THEN /\ thrown' = TRUE
           /\ frames' = q
           /\ UNCHANGED <<fps, iterations, callbackCount>>
      ELSE /\ thrown' = thrown
           /\ fps' = Undefined
           /\ IF EarlyExit(iterNumber)
              THEN /\ callbackCount' = Invoked(callbackCount)
                   /\ iterations' = iterations
                   /\ frames' = q
              ELSE /\ callbackCount' = callbackCount
                   /\ iterations' = iterNumber
                   /\ frames' = Append(q, [AnimatorTask(StartPos(iterNumber), viaPlay,
                                                        iterNumber)
                                             EXCEPT !.single = singleFrame])

\* the iterNumber arguments explored: none, half an iteration, past every target
Starts == {Undefined, Scale \div 2, 3 * Scale}

\* animate({ iterNumber: arg })
AnimateFrom(arg) ==
  /\ loops < MaxLoops
  /\ loops' = loops + 1
  /\ AnimateEffect(arg, FALSE, FALSE, frames)
  /\ run' = IF run = "fresh" /\ arg = Undefined THEN "single" ELSE "many"
  /\ stopped' = FALSE
  /\ UNCHANGED <<config, stopAll, timelineSorted, transform, timers, fired>>

Animate == \E arg \in Starts : AnimateFrom(arg)

\* an earlier revision of play: this.animate(this.#privateIterations)
PlayFromTarget ==
  /\ loops < MaxLoops
  /\ loops' = loops + 1
  /\ stopAll' = FALSE
  /\ AnimateEffect(privateIterations, FALSE, TRUE, frames)
  /\ run' = "many"
  /\ stopped' = FALSE
  /\ UNCHANGED <<config, timelineSorted, transform, timers, fired>>

Play ==
  /\ loops < MaxLoops
  /\ loops' = loops + 1
  /\ stopAll' = FALSE
  /\ AnimateEffect(iterations, FALSE, TRUE, frames)
  /\ run' = "many"
  /\ stopped' = FALSE
  /\ UNCHANGED <<config, timelineSorted, transform, timers, fired>>

Pause ==
  /\ stopAll' = TRUE
  /\ run' = "many"
  /\ UNCHANGED <<config, iterations, fps, timelineSorted, transform, frames, timers,
                 callbackCount, fired, stopped, loops, thrown>>

Stop ==
  /\ stopAll' = TRUE
  /\ iterations' = 0
  /\ run' = "many"
  /\ stopped' = TRUE
  /\ UNCHANGED <<config, fps, timelineSorted, transform, frames, timers,
                 callbackCount, fired, loops, thrown>>

\* frameNumber / ((this.#duration / 50) * 3) iterations, in units: 5000 / 3 a frame
FrameProgress(frameNumber) == (5000 * frameNumber) \div 3

\* the frameNumber arguments explored: none, and frame 3 (whole in units)
FrameNumbers == {Undefined, 3}

\* renderFrame(frameNumber)
RenderFrameAt(frameNumber) ==
  /\ loops < MaxLoops
  /\ loops' = loops + 1
  /\ AnimateEffect(IF Falsy(frameNumber) THEN iterations ELSE FrameProgress(frameNumber),
                   TRUE, FALSE, frames)
  /\ run' = "many"
  /\ stopped' = FALSE
  /\ UNCHANGED <<config, stopAll, timelineSorted, transform, timers, fired>>

RenderFrame == \E frameNumber \in FrameNumbers : RenderFrameAt(frameNumber)

\* the page clears the public field: fp.path = null
ClearPath ==
  /\ path
  /\ path' = FALSE
  /\ run' = "many"
  /\ UNCHANGED <<duration, privateIterations, callback, delay, timeline, easing,
                 exceedEasing, totalLength, stopAll, iterations, fps, timelineSorted, transform, frames, timers,
                 callbackCount, fired, stopped, loops, thrown, given, instance>>

\* (percentage * this.#privateIterations) / 100
ProgressOf(percentage) ==
  IF privateIterations = Infinity
  THEN IF percentage = 0 THEN NaN ELSE Infinity
  ELSE (percentage * privateIterations) \div 100

\* the percentages explored
Percents == {0, 50, 100}

\* setProgress(percentage)
SetProgressTo(percentage) ==
  /\ iterations' = ProgressOf(percentage)
  /\ run' = "many"
  /\ UNCHANGED <<config, stopAll, fps, timelineSorted, transform, frames, timers,
                 callbackCount, fired, stopped, loops, thrown>>

SetProgress == \E percentage \in Percents : SetProgressTo(percentage)

\* Math.floor(this.iterations) + percentage / 100, in units
CurrentProgressOf(percentage) ==
  IF IsFinite(iterations)
  THEN (iterations \div Scale) * Scale + (percentage * Scale) \div 100
  ELSE iterations

\* the percentages of the current iteration explored
CurrentPercents == {0, 50}

\* setCurrentIterationProgress(percentage)
SetCurrentIterationProgressTo(percentage) ==
  /\ iterations' = CurrentProgressOf(percentage)
  /\ run' = "many"
  /\ UNCHANGED <<config, stopAll, fps, timelineSorted, transform, frames, timers,
                 callbackCount, fired, stopped, loops, thrown>>

SetCurrentIterationProgress ==
  \E percentage \in CurrentPercents : SetCurrentIterationProgressTo(percentage)

\* ------------------------------------------------------------------ getters
RECURSIVE Gcd(_, _)
Gcd(a, b) == IF b = 0 THEN a ELSE Gcd(b, a % b)

\* The percentage (a / b) * 100 of two progress values, b not NaN.  A percentage need
\* not be whole: <<n, d>> stands for n / d in lowest terms, and <<NaN, 0>>,
\* <<Infinity, 0>> for NaN and Infinity.
Percentage(a, b) ==
  IF a = NaN THEN <<NaN, 0>>
  ELSE IF a = Infinity THEN IF b = Infinity THEN <<NaN, 0>> ELSE <<Infinity, 0>>
  ELSE IF b = Infinity THEN <<0, 1>>
  ELSE IF b = 0 THEN IF a = 0 THEN <<NaN, 0>> ELSE <<Infinity, 0>>
  ELSE LET g == Gcd(100 * a, b) IN <<(100 * a) \div g, b \div g>>

\* getProgress(): (this.iterations / this.#privateIterations) * 100
GetProgress == Percentage(iterations, privateIterations)

\* x - Math.floor(x), in units
Fraction(x) == IF IsFinite(x) THEN x % Scale ELSE NaN

\* getCurrentIterationProgress():
\* (this.#privateIterations - Math.floor(this.#privateIterations)) * 100
GetCurrentIterationProgress == Percentage(Fraction(privateIterations), Scale)

\* ----------------------------------------------------------------- animator
\* (iterNumber / this.#privateIterations) * 100 >= t
PercentGeq(iterNumber, t) ==
  IF iterNumber = NaN THEN FALSE
  ELSE IF privateIterations = Infinity
       THEN IsFinite(iterNumber) /\ 0 >= t       \* Infinity / Infinity is NaN
  ELSE IF privateIterations = 0
       THEN iterNumber # 0                       \* x / 0 is Infinity, 0 / 0 is NaN
  ELSE iterNumber * 100 >= t * privateIterations

\* this.#timeline[key] is defined
InTimeline(key) == \E i \in 1..Len(timeline) : timeline[i] = key

RECURSIVE Dispatch(_, _, _)
\* The while loop over #timelineSorted: pops every threshold the progress has
\* reached, smallest first, and calls this.#timeline[`${timelineNumber}%`] unless
\* timelineNumber is falsy (0).  A key that is not in #timeline makes the call throw.
\* Returns what is left (s), the callbacks invoked (f) and whether the call threw.
Dispatch(iterNumber, sorted, log) ==
  IF sorted = <<>> \/ ~PercentGeq(iterNumber, sorted[Len(sorted)])
  THEN [s |-> sorted, f |-> log, threw |-> FALSE]
  ELSE LET timelineNumber == sorted[Len(sorted)]
           rest == SubSeq(sorted, 1, Len(sorted) - 1)
       IN  IF timelineNumber = 0 THEN Dispatch(iterNumber, rest, log)
           ELSE IF InTimeline(KeyOf(timelineNumber))
                THEN Dispatch(iterNumber, rest, Append(log, KeyOf(timelineNumber)))
           ELSE [s |-> rest, f |-> log, threw |-> TRUE]

\* the exit test without the target
AnimatorExitsWhenHaltedOnly(iterNumber) == stopAll

\* the exit test without the halt flag
AnimatorExitsAtTargetOnly(iterNumber) == Geq(iterNumber, privateIterations)

\* this.#stopAll || iterNumber >= this.#privateIterations
AnimatorExits(iterNumber) == stopAll \/ Geq(iterNumber, privateIterations)

\* the callback test without the halt flag
ExitCallsBackWhenHalted == callback

\* !this.#stopAll && this.callback
ExitCallsBack == ~stopAll /\ callback

\* ease(length) with the identity easing t => t: the eased length is the length
\* itself, which the loop keeps inside [0, totalLength)
Ease(length) == length

\* One call of the closure `animator` (task), the rest of the frame queue being q,
\* having measured timePerFrame = dt.  prevTime is a Date.now() value, never falsy,
\* so the speed is always recomputed from dt.  With this.path cleared,
\* this.path.getPointAtLength throws after the timeline dispatch.
Animator(task, q, dt) ==
  LET iterNumber == iterations
      pixelsPerMs == 100 * dt
      d == Dispatch(iterNumber, timelineSorted, fired)
  IN  IF AnimatorExits(iterNumber)
      THEN /\ fps' = Undefined
           /\ callbackCount' = IF ExitCallsBack THEN Invoked(callbackCount) ELSE callbackCount
           /\ frames' = q
           /\ UNCHANGED <<iterations, timelineSorted, transform, timers, fired>>
      ELSE IF Geq(task.cur, Scale)
      THEN /\ IF Leq(iterNumber, privateIterations)
              THEN IF delay # 0
                   THEN timers' = Append(timers, iterNumber) /\ frames' = q
                   ELSE timers' = timers /\ frames' = Append(q, ReanimateTask(iterNumber))
              ELSE timers' = timers /\ frames' = q
           /\ UNCHANGED <<iterations, fps, timelineSorted, transform, callbackCount, fired>>
      ELSE /\ privateIterations = Infinity /\ IsFinite(iterNumber)
                => iterNumber + pixelsPerMs <= MaxInfIter * Scale
           /\ fps' = Fps(dt)
           /\ timelineSorted' = d.s
           /\ fired' = d.f
           /\ IF d.threw \/ ~path
              THEN /\ frames' = q
                   /\ UNCHANGED <<iterations, transform>>
              ELSE /\ transform' = Ease(task.cur)
                   /\ iterations' = Add(iterNumber, pixelsPerMs)
                   /\ frames' = Append(q, Sampled(task, Add(task.cur, pixelsPerMs),
                                                   Ease(task.cur)))
           /\ UNCHANGED <<timers, callbackCount>>

\* the frame times measured (Date.now() - prevTime), in ms
Dts == {0, 1}

\* The browser runs the oldest frame callback.
RunFrame ==
  /\ frames # <<>>
  /\ LET task == Head(frames)
         q == Tail(frames)
     IN  IF task.kind = "animator"
         THEN (\E dt \in Dts : Animator(task, q, dt)) /\ thrown' = thrown
         ELSE /\ AnimateEffect(task.iter, FALSE, FALSE, q)
              /\ UNCHANGED <<timelineSorted, transform, timers, fired>>
  /\ UNCHANGED <<config, stopAll, run, stopped, loops>>

\* The delay has passed: setTimeout's callback requests the frame that re-enters animate.
FireTimer ==
  /\ timers # <<>>
  /\ timers' = Tail(timers)
  /\ frames' = Append(frames, ReanimateTask(Head(timers)))
  /\ UNCHANGED <<config, stopAll, iterations, fps, timelineSorted, transform,
                 callbackCount, fired, run, stopped, loops, thrown>>

Next ==
  \/ Animate
  \/ Play
  \/ Pause
  \/ Stop
  \/ SetProgress
  \/ RunFrame
  \/ FireTimer

Spec == Init /\ [][Next]_vars

\* ------------------------------------------------------------ with a timeline
\* The same controller with each of the timelines, a target of 2 iterations and a
\* callback; a delay only with the timeline {'05%': f}.
TimelineInit ==
  /\ Constructed(Iterations)
  /\ timeline # <<>>
  /\ callback
  /\ delay # 0 => timeline = << <<0, 5>> >>

TimelineSpec == TimelineInit /\ [][Next]_vars

\* ------------------------------------------------- the whole public surface
\* The same controller with renderFrame and with a page that may clear this.path,
\* on fewer configurations: no timeline, a delay of 1 ms, and the targets 0 and 1.
ApiIterations == {0, 1}

ApiInit ==
  /\ Constructed(ApiIterations)
  /\ timeline = <<>> /\ delay = 1

ApiNext ==
  \/ Next
  \/ RenderFrame
  \/ ClearPath

ApiSpec == ApiInit /\ [][ApiNext]_vars

\* ------------------------------------------------------- running forward
\* The controller of Spec when the page calls neither stop() nor a progress setter.
\* animate() from a quarter of an iteration: with frames of half an iteration the
\* loop then passes the end of the path by a quarter of its length
AnimateOffBeat == AnimateFrom(Scale \div 4)

ForwardNext ==
  \/ Animate
  \/ AnimateOffBeat
  \/ Play
  \/ Pause
  \/ RunFrame
  \/ FireTimer

ForwardSpec == Init /\ [][ForwardNext]_vars

\* -------------------------------------------------- both progress setters
\* The same controller with setCurrentIterationProgress as well, on one
\* configuration: no timeline, a target of 2 iterations, a callback, a delay of 1 ms.
ProgressInit ==
  /\ Constructed(Iterations)
  /\ timeline = <<>> /\ callback /\ delay = 1

ProgressNext ==
  \/ Next
  \/ SetCurrentIterationProgress

ProgressSpec == ProgressInit /\ [][ProgressNext]_vars

\* ------------------------------------------------------ the easing pipeline
\* Lengths here are in units of a quarter pixel, so that the number 1 of the overflow
\* policies, a length of one pixel, is Px units.  The arithmetic is exact; the
\* rounding of the floating-point division and multiplication is not modelled.
Px == 4

\* t % m of JavaScript: the remainder has the sign of the dividend
Rem(t, m) == IF t >= 0 THEN t % m ELSE -((-t) % m)

\* the easing functions explored: t => t, t => 1.5 * t, t => 2 * t - 0.5
Easings == {"identity", "timesOneAndHalf", "twiceMinusHalf"}

\* totalLength * this.easing(length / totalLength), for an even number of units
EasedLength(e, length, total) ==
  CASE e = "identity" -> length
    [] e = "timesOneAndHalf" -> (3 * length) \div 2
    [] e = "twiceMinusHalf" -> 2 * length - total \div 2

\* #exceedEasingModes[m](t): t is the eased length, the 1 of the source is one pixel
ExceedEasingMode(m, t) ==
  CASE m = "clamp" -> Px
    [] m = "loop" -> IF t > Px THEN Rem(t, Px) ELSE Px - Rem(t, Px)
    [] m = "pingpong" -> IF t > Px THEN Px - Rem(t, Px) ELSE -Rem(t, Px)

\* the policy the constructor keeps for config.mode: a keyword's function, else clamp
\* (a function given as mode is not explored)
ExceedEasingOf(mode) ==
  IF TypeOf(mode) = "string" /\ mode.s \in ExceedEasingModes THEN mode.s ELSE "clamp"

\* ease(length) of animate
EaseOf(length) ==
  LET easedLength == EasedLength(easing, length, totalLength)
  IN  IF easedLength > totalLength \/ easedLength < 0
      THEN ExceedEasingMode(exceedEasing, easedLength)
      ELSE easedLength

\* the values of config.mode explored: the keywords, and none
Modes == {Str(m) : m \in ExceedEasingModes} \cup {Undef}

\* the path lengths explored: 1, 2 and 100 pixels
TotalLengths == {Px, 2 * Px, 100 * Px}

\* the lengths ease is applied to: every half pixel from 0 to totalLength + 1, the
\* loop sampling at currentLength and at currentLength + 1
Lengths == {2 * k : k \in 0..((totalLength + Px) \div 2)}

\* a controller built with an easing, a mode and a path; nothing is scheduled
EasingInit ==
  /\ duration \in Durations /\ privateIterations = Units(1) /\ callback = FALSE
  /\ delay = 0 /\ timeline = <<>> /\ path = TRUE
  /\ easing \in Easings
  /\ exceedEasing \in {ExceedEasingOf(mode) : mode \in Modes}
  /\ totalLength \in TotalLengths
  /\ stopAll = FALSE /\ iterations = privateIterations /\ fps = Undefined
  /\ timelineSorted = <<>> /\ transform = Undefined /\ frames = <<>> /\ timers = <<>>
  /\ callbackCount = 0 /\ fired = <<>> /\ run = "fresh" /\ stopped = FALSE
  /\ loops = 0 /\ thrown = FALSE /\ given = Unrecorded /\ instance = Unrecorded

\* this.path.getPointAtLength(ease(length)): the element is placed at the eased length
SampleAt(length) ==
  /\ transform' = EaseOf(length)
  /\ UNCHANGED <<config, stopAll, iterations, fps, timelineSorted, frames, timers,
                 callbackCount, fired, run, stopped, loops, thrown>>

Sample == \E length \in Lengths : SampleAt(length)

EasingSpec == EasingInit /\ [][Sample]_vars

\* --------------------------------------------------------- the constructor
\* The timelines given: none, {}, {'50%': f}, {'05%': f, '100%': f}, {'50': f},
\* {'1000%': f}, {'-5%': f}, {'50%': 'f'}, an array, null.
GivenTimelines ==
  { [v |-> Undef, entries |-> <<>>],
    [v |-> Obj, entries |-> <<>>],
    [v |-> Obj, entries |-> << Entry(<<5, 0>>, TRUE, Fn) >>],
    [v |-> Obj, entries |-> << Entry(<<0, 5>>, TRUE, Fn), Entry(<<1, 0, 0>>, TRUE, Fn) >>],
    [v |-> Obj, entries |-> << Entry(<<5, 0>>, FALSE, Fn) >>],
    [v |-> Obj, entries |-> << Entry(<<1, 0, 0, 0>>, TRUE, Fn) >>],
    [v |-> Obj, entries |-> << Entry(<<10, 5>>, TRUE, Fn) >>],
    [v |-> Obj, entries |-> << Entry(<<5, 0>>, TRUE, Str("f")) >>],
    [v |-> Value("array"), entries |-> <<>>],
    [v |-> Value("null"), entries |-> <<>>] }

\* The arguments given to the constructor: objects with every combination of these
\* fields, and four arguments that are not plain objects.
Configs ==
  { [self |-> Obj, duration |-> d, path |-> p, element |-> e, iterations |-> n,
     easing |-> ea, mode |-> m, delay |-> dl, toScale |-> Undef, rotate |-> r,
     callback |-> cb, timeline |-> tl.v, entries |-> tl.entries] :
      d \in {Undef, Str("2"), Value("NaN"), Num(-1), Num(0), Num(2)},
      p \in {Undef, Obj},
      e \in {Undef, Obj},
      n \in {Undef, Value("NaN"), Num(2), Value("Infinity")},
      ea \in {Undef, Fn},
      m \in {Undef, Str(""), Str("loop"), Str("bounce"), Fn},
      dl \in {Undef, Num(1)},
      r \in {Undef, Bool(TRUE)},
      cb \in {Undef, Fn, Str("f")},
      tl \in GivenTimelines }
  \cup { [NoConfig EXCEPT !.self = x] :
           x \in {Undef, Value("null"), Value("array"), Str("config")} }

\* no controller yet
NoController ==
  /\ duration = 0 /\ privateIterations = Undefined /\ callback = FALSE /\ delay = 0
  /\ timeline = <<>> /\ path = FALSE /\ stopAll = FALSE /\ iterations = Undefined
  /\ easing = Undefined /\ exceedEasing = Undefined /\ totalLength = Undefined
  /\ fps = Undefined /\ timelineSorted = <<>> /\ transform = Undefined
  /\ frames = <<>> /\ timers = <<>> /\ callbackCount = 0 /\ fired = <<>>
  /\ run = "fresh" /\ stopped = FALSE /\ loops = 0 /\ thrown = FALSE

ConstructInit ==
  /\ NoController
  /\ given = NoConfig
  /\ instance = NoInstance

\* new FollowPath(cfg)
Construct ==
  /\ instance.status = "none"
  /\ \E cfg \in Configs :
       /\ given' = cfg
       /\ instance' = New(cfg)
  /\ UNCHANGED controller

ConstructSpec == ConstructInit /\ [][Construct]_vars

\* ------------------------------------------------------------------- claims
\* how often key k occurs in log
Count(k, log) == Cardinality({i \in 1..Len(log) : log[i] = k})

\* the closures that have sampled at least once
HasSampled == \E i \in 1..Len(frames) : frames[i].kind = "animator" /\ ~frames[i].first

\* C1: an uninterrupted animate() on a finite integer target with a callback
\* completes: once its loop has nothing scheduled any more, the completion callback
\* has been invoked exactly once and the progress has reached the target.
C1_RunCompletes ==
  (run = "single" /\ callback /\ IsFinite(privateIterations) /\ Pending = 0)
    => (callbackCount = 1 /\ Geq(iterations, privateIterations))

\* C2: after stop(), as long as neither animate nor play is called, no step invokes
\* the completion callback.
C2_StopNeverCompletes == [][stopped /\ stopped' => callbackCount' = callbackCount]_vars

\* stop() was called on a run that had started sampling and whose loop is still
\* scheduled, short of its target, with a callback that has not been invoked
C2_Witness ==
  /\ stopped /\ callback /\ callbackCount = 0
  /\ frames # <<>> /\ Head(frames).kind = "animator" /\ ~Head(frames).first
  /\ transform # Undefined

C4_PlayResumes ==
  /\ [][Play => /\ ~stopAll'
                /\ (IsFinite(iterations) /\ Gt(privateIterations, iterations))
                     => iterations' = iterations]_vars
  /\ [](\A i \in 1..Len(frames) :
          (frames[i].viaPlay /\ ~frames[i].first)
            => frames[i].firstSample = StartPos(frames[i].start))

\* a loop started by play() from one and a half iterations has sampled half-way
\* along the path
C4_Witness ==
  \E i \in 1..Len(frames) :
    /\ frames[i].viaPlay /\ ~frames[i].first
    /\ frames[i].start > Scale
    /\ frames[i].firstSample = frames[i].start - Scale
    /\ frames[i].firstSample > 0

\* C5: with the halt flag clear and the progress short of the target, at most one
\* loop is scheduled.
C5_SingleLoop ==
  (~stopAll /\ IsFinite(iterations) /\ Gt(privateIterations, iterations))
    => Pending <= 1

\* C6: no timeline callback is invoked twice.
C6_AtMostOnce == \A i, j \in 1..Len(fired) : fired[i] = fired[j] => i = j

\* C7: timeline callbacks are invoked in ascending order of their thresholds.
C7_Ascending ==
  \A i, j \in 1..Len(fired) : i < j => NumberOf(fired[i]) <= NumberOf(fired[j])

\* the timeline lists 75% before 25%, and 25% was invoked before 75%
C7_Witness ==
  /\ timeline = << <<7, 5>>, <<2, 5>> >>
  /\ fired = << <<2, 5>>, <<7, 5>> >>

\* every key of the timeline is written as `${Number(key)}%`: no leading zeros
CanonicalKeys == \A i \in 1..Len(timeline) : KeyOf(NumberOf(timeline[i])) = timeline[i]

\* C8: when an uninterrupted run on a finite target has invoked the completion
\* callback, every threshold in (0, 100] has had its callback invoked exactly once
\* (stated for the timelines whose keys have no leading zeros).
C8_AllThresholdsFire ==
  (run = "single" /\ IsFinite(privateIterations) /\ callbackCount >= 1 /\ CanonicalKeys)
    => \A i \in 1..Len(timeline) :
         (0 < NumberOf(timeline[i]) /\ NumberOf(timeline[i]) <= 100)
           => Count(timeline[i], fired) = 1

\* C9: once the first run on a finite target has sampled, the callback of '0%' has
\* been invoked exactly once.
C9_ZeroPercentFires ==
  (run = "single" /\ IsFinite(privateIterations) /\ InTimeline(<<0>>) /\ HasSampled)
    => Count(<<0>>, fired) = 1

\* C10: with an infinite target no timeline callback and no completion callback is
\* ever invoked.
C10_InfiniteNeverCalls ==
  privateIterations = Infinity => (fired = <<>> /\ callbackCount = 0)

\* C11: getProgress() called right after setProgress(p) returns p, whatever the
\* target and the run state.
C11_RoundTrip ==
  [][\A p \in Percents : SetProgressTo(p) => GetProgress' = <<p, 1>>]_vars

\* C12: with a finite target and a finite live progress, getCurrentIterationProgress()
\* is the fractional part of the live progress, as a percentage.
C12_FractionOfLive ==
  (IsFinite(privateIterations) /\ IsFinite(iterations))
    => GetCurrentIterationProgress = Percentage(Fraction(iterations), Scale)

\* C13: a call that asks for a single frame performs one sample-and-render step and
\* schedules no further tick: its closure is not in the frame queue once it has sampled.
C13_SingleFrameOnly ==
  \A i \in 1..Len(frames) : frames[i].single => frames[i].first

\* C14: animate(start) called with a target <= 0 or with start beyond the target
\* invokes the completion callback, if there is one, and does nothing else: no tick
\* is scheduled and the progress is left as it was.
C14_EarlyExitOnly ==
  [][\A arg \in Starts :
       (/\ AnimateFrom(arg)
        /\ path /\ ~Falsy(duration)
        /\ Leq(privateIterations, 0) \/ Gt(StartOf(arg), privateIterations))
         => /\ callbackCount' = IF callback THEN Invoked(callbackCount) ELSE callbackCount
            /\ UNCHANGED <<frames, timers, iterations, transform>>]_vars

\* C18: with the path (or the duration) absent, a call of animate -- direct, through
\* renderFrame or play, or the re-entry at an iteration boundary -- throws and changes
\* nothing: no frame or timer is scheduled, nothing is rendered, no callback is
\* invoked, and progress, fps, halt flag and pending thresholds stay as they are
\* (play clears the halt flag itself before it calls animate).
C18_GuardAborts ==
  [][(~path \/ Falsy(duration)) =>
       /\ (Animate \/ RenderFrame)
            => (thrown' /\ UNCHANGED <<iterations, fps, stopAll, timelineSorted, transform,
                                        frames, timers, callbackCount, fired>>)
       /\ Play
            => (thrown' /\ UNCHANGED <<iterations, fps, timelineSorted, transform,
                                        frames, timers, callbackCount, fired>>)
       /\ (frames # <<>> /\ Head(frames).kind = "reanimate" /\ RunFrame)
            => (thrown' /\ frames' = Tail(frames)
                /\ UNCHANGED <<iterations, fps, stopAll, timelineSorted, transform,
                               timers, callbackCount, fired>>)]_vars

\* the path was cleared during a run that had sampled, a later call of animate threw,
\* and the completion callback has not been invoked
C18_Witness ==
  /\ thrown /\ ~path
  /\ transform # Undefined
  /\ callback /\ callbackCount = 0
  /\ Gt(privateIterations, iterations)

\* C19: stop() sets the halt flag and resets the target to zero.
C19_StopZeroesTarget == [][Stop => (stopAll' /\ privateIterations' = 0)]_vars

\* a frame places the element or advances the progress
Samples == RunFrame /\ (transform' # transform \/ Gt(iterations', iterations))

\* C20: after stop() the controller is inert: a later play() or animate() leaves it
\* in a state where no frame can place the element or advance the progress.
C20_StoppedIsInert ==
  [][(stopped /\ (Play \/ Animate)) => ~(ENABLED Samples)']_vars

\* the constructor has been called
Called == instance.status # "none"

\* typeof v is not "number", or v is NaN
NotNumeric(v) == TypeOf(v) # "number" \/ IsNaN(v)

\* the configurations C15 lists
ListedInvalid(cfg) ==
  \/ cfg.self.t # "object"
  \/ cfg.path = Undef
  \/ cfg.element = Undef
  \/ NotNumeric(cfg.duration)
  \/ NotNumeric(cfg.iterations)
  \/ cfg.callback # Undef /\ TypeOf(cfg.callback) # "function"
  \/ /\ cfg.mode # Undef
     /\ TypeOf(cfg.mode) # "function"
     /\ ~(cfg.mode.t = "string" /\ cfg.mode.s \in {"clamp", "loop", "pingpong"})
  \/ \E i \in 1..Len(cfg.entries) :
       ~KeyMatches(cfg.entries[i]) \/ TypeOf(cfg.entries[i].v) # "function"

\* C15: the constructor, given a configuration that is not a plain object, or lacks
\* the path or the element, or has a non-numeric or NaN duration or iterations, a
\* callback that is not a function, a mode that is neither one of the three keywords
\* nor a function, a timeline key that does not match the pattern or a timeline value
\* that is not a function, throws before it assigns any field.
C15_InvalidRejected ==
  (Called /\ ListedInvalid(given)) => instance = [NoInstance EXCEPT !.status = "invalid"]

\* C16: a configuration with a valid element, duration, path and iterations and
\* nothing else is accepted, and the controller uses the identity easing.
C16_EasingOptional ==
  (/\ Called
   /\ given.self = Obj /\ given.path = Obj /\ given.element = Obj
   /\ given.duration.t = "number" /\ given.duration.n > 0
   /\ given.iterations.t \in {"number", "Infinity"}
   /\ given.easing = Undef /\ given.mode = Undef /\ given.delay = Undef
   /\ given.toScale = Undef /\ given.rotate = Undef /\ given.callback = Undef
   /\ given.timeline = Undef)
    => (instance.status = "built" /\ instance.easing = "identity")

\* C17: every controller the constructor builds has a duration above zero.
C17_DurationPositive ==
  instance.status = "built" => (instance.duration.t = "number" /\ instance.duration.n > 0)

\* a frame invokes the completion callback or places the element
CompletesOrRenders == RunFrame /\ (callbackCount' # callbackCount \/ transform' # transform)

\* C21: once an uninterrupted run has completed (nothing scheduled, the callback
\* invoked once), a later play() neither invokes the callback itself nor leaves a
\* frame that invokes it or places the element.
C21_CompletedStaysCompleted ==
  [][(run = "single" /\ callbackCount = 1 /\ Pending = 0 /\ Play)
       => (callbackCount' = 1 /\ ~(ENABLED CompletesOrRenders)')]_vars

\* the eased length is outside [0, totalLength]: the overflow policy applies
Overflows(length) ==
  LET easedLength == EasedLength(easing, length, totalLength)
  IN  easedLength > totalLength \/ easedLength < 0

\* C22: with the policy loop and the easing t => 1.5 * t, a sample at the raw
\* fraction 1 (length totalLength, eased value 1.5) places the element at half the
\* length of the path: the effective fraction 0.5 times the length.
C22_LoopWrapsFraction ==
  [][(exceedEasing = "loop" /\ easing = "timesOneAndHalf" /\ SampleAt(totalLength))
       => 2 * transform' = totalLength]_vars

\* C23: with the policy clamp, every sample whose eased value is out of range places
\* the element at the end of the path, at length totalLength.
C23_ClampHoldsEnd ==
  [][\A length \in Lengths :
       (exceedEasing = "clamp" /\ Overflows(length) /\ SampleAt(length))
         => transform' = totalLength]_vars

\* C24: with each policy, every sample whose eased value is out of range, above or
\* below, places the element at a length within [0, totalLength].
C24_WithinPath ==
  [][\A length \in Lengths :
       (Overflows(length) /\ SampleAt(length))
         => (0 <= transform' /\ transform' <= totalLength)]_vars

\* C25: when an uninterrupted animate() on a target of one iteration, with a
\* callback, has nothing scheduled any more, the element was last placed at the end
\* of the path (length totalLength) and the callback has been invoked exactly once.
C25_EndsAtEnd ==
  (run = "single" /\ privateIterations = Units(1) /\ callback /\ Pending = 0)
    => (transform = totalLength /\ callbackCount = 1)

\* C26: when the page calls neither stop() nor a progress setter, no scheduler step
\* (a tick of a loop, or the re-entry of animate after an iteration) decreases the
\* progress, overlapping loops included.
C26_NeverDecreases == [][RunFrame => Geq(iterations', iterations)]_vars

\* the oldest frame callback is a loop's tick that will find the iteration complete,
\* the halt flag clear and the progress short of the target
AtBoundary ==
  /\ frames # <<>> /\ Head(frames).kind = "animator"
  /\ Geq(Head(frames).cur, Scale) /\ ~AnimatorExits(iterations)

\* the oldest frame callback is the re-entry of animate
AtReentry == frames # <<>> /\ Head(frames).kind = "reanimate"

\* C27: in a run started by one call, with no stop() and no progress setter: the
\* tick that finds the iteration complete places nothing and leaves the progress,
\* and hands the re-entry to the delay timer if a delay is set, else to the next
\* frame; while the timer is pending no frame is scheduled and the progress and
\* the element stay; the re-entry leaves the progress and starts the next
\* iteration at the length of its fractional part, where the next sample is taken.
C27_BoundaryContinues ==
  [][loops = 1 =>
       /\ (AtBoundary /\ RunFrame) =>
            /\ iterations' = iterations /\ transform' = transform
            /\ IF delay # 0
               THEN frames' = <<>> /\ timers' = <<iterations>>
               ELSE timers' = <<>> /\ Len(frames') = 1 /\ AtReentry'
       /\ (timers # <<>> /\ (RunFrame \/ FireTimer)) =>
            (frames = <<>> /\ iterations' = iterations /\ transform' = transform)
       /\ (AtReentry /\ RunFrame) =>
            /\ iterations' = iterations /\ transform' = transform
            /\ Len(frames') = 1 /\ frames'[1].kind = "animator"
            /\ frames'[1].first /\ frames'[1].cur = Fraction(iterations)
       /\ (frames # <<>> /\ Head(frames).first /\ RunFrame /\ transform' # transform) =>
            transform' = Fraction(iterations)]_vars

\* after a delay the re-entry has started the second iteration a quarter of the
\* path in, the progress being one iteration and a quarter
C27_Witness ==
  /\ loops = 1 /\ delay # 0 /\ timers = <<>> /\ ~stopAll
  /\ iterations = Scale + Scale \div 4
  /\ Len(frames) = 1 /\ frames[1].kind = "animator" /\ frames[1].first
  /\ frames[1].cur = Scale \div 4
  /\ transform = Scale - Scale \div 4

\* C28: whenever no frame callback and no delay timer is pending (no loop is
\* scheduled: never animated, exited, or completed), fps is undefined.
C28_FpsUnsetWhenIdle == Pending = 0 => fps = Undefined

\* a frame moves the element to a length other than that of the fractional part of
\* the progress
MisplacedSample ==
  RunFrame /\ transform' # transform /\ transform' # Fraction(iterations)

\* C29: in a run started by one call, a progress setter leaves the loop so that its
\* next frame, if it moves the element, moves it to the length of the fractional
\* part of the progress that was set.
C29_SampleFollowsSetter ==
  [][(loops = 1 /\ (SetProgress \/ SetCurrentIterationProgress))
       => ~(ENABLED MisplacedSample)']_vars

\* C30: the element is placed only by a tick of a loop that finds the halt flag
\* clear, the progress not at the target and its currentLength short of the end of
\* the path: every step that changes where the element is, is such a tick.
C30_RendersOnlyWhenRunning ==
  [][transform' # transform
       => /\ RunFrame /\ Head(frames).kind = "animator"
          /\ ~stopAll
          /\ ~Geq(iterations, privateIterations)
          /\ ~Geq(Head(frames).cur, totalLength)
          /\ transform' = Head(frames).cur]_vars

\* a tick has found the iteration complete and handed the re-entry to the delay
\* timer: the element stays where the tick before placed it, short of the end
C30_Witness ==
  /\ timers # <<>> /\ frames = <<>> /\ ~stopAll
  /\ Gt(privateIterations, iterations)
  /\ transform # Undefined /\ transform < totalLength
  /\ iterations = Head(timers)

\* C31: after stop(), as long as neither animate nor play is called, no scheduler
\* step (a frame callback or the delay timer) moves the progress away from 0,
\* a re-entry of animate pending at the time of stop() included.
C31_StoppedStaysZero ==
  [][(stopped /\ iterations = 0 /\ (RunFrame \/ FireTimer)) => iterations' = 0]_vars

\* threshold t is among the thresholds in sorted
Holds(sorted, t) == \E i \in 1..Len(sorted) : sorted[i] = t

\* C32: a tick that takes thresholds off #timelineSorted goes on to request its
\* next frame (it does not abort in the dispatch), and for every key of the timeline
\* whose threshold it took off for good, the callback stored under that key is
\* invoked by that tick.  (The key '0%', whose callback is skipped, is left to C9.)
C32_AcceptedKeysDispatch ==
  [][timelineSorted' # timelineSorted
       => /\ frames' # Tail(frames)
          /\ \A i \in 1..Len(timeline) :
               LET t == NumberOf(timeline[i])
               IN  (t # 0 /\ Holds(timelineSorted, t) /\ ~Holds(timelineSorted', t))
                     => Count(timeline[i], fired') = Count(timeline[i], fired) + 1]_vars

====
